---------------------------- MODULE Spec2Model ----------------------------
(***************************************************************************)
(* A model of the package pipeline of src/main.py (class AptAn):           *)
(* download_source -> convert_to_targz -> re-extraction -> suitability     *)
(* gate -> build_native | build_ios_app | translate_to_language ->         *)
(* install_and_configure, driven by install_package.                       *)
(*                                                                         *)
(* The file system is a record [files, dirs]: files maps an absolute path  *)
(* (a sequence of path components) to the content of the regular file at   *)
(* that path, dirs is the set of directories.  A content is a record       *)
(* tagged by kind: "text", "tar" (a gzip tar archive, as its set of        *)
(* members) or "json".                                                     *)
(***************************************************************************)
EXTENDS Integers, Sequences, FiniteSets, TLC

VARIABLES host, fs, inv, prev, clock, ui

vars == <<host, fs, inv, prev, clock, ui>>

(***************************************************************************)
(* Bounds of the model.                                                    *)
(***************************************************************************)
\* install_package invocations in one behaviour of Spec
MaxInvocations == 1

\* install_package invocations in one behaviour of SpecRepeat
MaxRepeated == 2

\* Python's None, as passed for a missing source_url, target or install_env
None == "<None>"

\* "no path": the value of a path-valued local that was never assigned
NoPath == <<>>

Procs == {1, 2}

(***************************************************************************)
(* Strings.                                                                *)
(***************************************************************************)
\* sub in s
Contains(s, sub) ==
    \E i \in 1..(Len(s) - Len(sub) + 1) : SubSeq(s, i, i + Len(sub) - 1) = sub

\* s.endswith(suf)
EndsWith(s, suf) ==
    /\ Len(s) >= Len(suf)
    /\ SubSeq(s, Len(s) - Len(suf) + 1, Len(s)) = suf

LowerChar(c) ==
    CASE c = "N" -> "n" [] c = "Y" -> "y" [] c = "F" -> "f" [] c = "R" -> "r"
      [] c = "E" -> "e" [] c = "O" -> "o" [] c = "C" -> "c" [] OTHER -> c

RECURSIVE LowerFrom(_, _)
LowerFrom(s, i) ==
    IF i > Len(s) THEN "" ELSE LowerChar(SubSeq(s, i, i)) \o LowerFrom(s, i + 1)

\* s.lower(), on the alphabet the model's names and answers are written in
Lower(s) == LowerFrom(s, 1)

(***************************************************************************)
(* File contents.                                                          *)
(***************************************************************************)
Text(s) == [kind |-> "text", text |-> s]

\* a gzip tar archive: members is a set of [name |-> relative path, data |-> content]
Tar(members) == [kind |-> "tar", members |-> members]

Json(data) == [kind |-> "json", data |-> data]

(***************************************************************************)
(* Paths and the file system (os, os.path, shutil, tarfile).               *)
(***************************************************************************)
IsPrefix(p, q) == Len(p) <= Len(q) /\ SubSeq(q, 1, Len(p)) = p

IsProperPrefix(p, q) == Len(p) < Len(q) /\ SubSeq(q, 1, Len(p)) = p

\* os.path.relpath(q, p) for q below p
relpath(q, p) == SubSeq(q, Len(p) + 1, Len(q))

\* os.path.dirname
dirname(p) == SubSeq(p, 1, Len(p) - 1)

\* os.path.basename
basename(p) == p[Len(p)]

\* os.path.join(p, name), name a single relative component
join(p, name) == Append(p, name)

exists(f, p) == p \in DOMAIN f.files \/ p \in f.dirs

isdir(f, p) == p \in f.dirs

\* os.listdir(p): the names of the direct children of p
listdir(f, p) ==
    {q[Len(p) + 1] : q \in {r \in (DOMAIN f.files) \cup f.dirs : IsProperPrefix(p, r)}}

\* os.makedirs(p, exist_ok=True)
makedirs(f, p) ==
    [f EXCEPT !.dirs = @ \cup {SubSeq(p, 1, n) : n \in 1..Len(p)}]

\* shutil.rmtree(p)
rmtree(f, p) ==
    [files |-> [q \in {r \in DOMAIN f.files : ~IsPrefix(p, r)} |-> f.files[q]],
     dirs  |-> {d \in f.dirs : ~IsPrefix(p, d)}]

\* open(p, "w").write(content): creates or truncates the file p
writefile(f, p, content) ==
    [f EXCEPT !.files = [q \in (DOMAIN @) \cup {p} |-> IF q = p THEN content ELSE @[q]]]

\* the regular files below directory p, as a map relative path -> content
tree(f, p) ==
    [r \in {relpath(q, p) : q \in {s \in DOMAIN f.files : IsProperPrefix(p, s)}}
        |-> f.files[p \o r]]

\* TarFile.extractall(dest): every member is written below dest, its parent
\* directories created as needed; files already below dest that the archive
\* does not name are left in place
extractall(f, members, dest) ==
    [files |-> [q \in (DOMAIN f.files) \cup {dest \o m.name : m \in members} |->
                    IF \E m \in members : dest \o m.name = q
                    THEN (CHOOSE m \in members : dest \o m.name = q).data
                    ELSE f.files[q]],
     dirs  |-> f.dirs \cup
               UNION {{SubSeq(dest \o m.name, 1, n) : n \in 1..(Len(dest \o m.name) - 1)}
                        : m \in members}]


(***************************************************************************)
(* The host: PlatformConfig, the GEMINI_API_KEY passed to AptAn and the    *)
(* tools on the PATH.  Fixed for the life of the process.                  *)
(***************************************************************************)
Systems == {"Linux", "Darwin", "Windows"}

\* PlatformConfig.load_config: platform_config.json is keyed by system; the
\* one of the model sets a build command for Windows and none for the others
platform_config_json ==
    [s \in Systems |-> IF s = "Windows" THEN [build_command |-> "nmake"]
                       ELSE [shell |-> "/bin/sh"]]

\* PlatformConfig.get_config(key, default), for the configuration c
get_config(c, key, default) == IF key \in DOMAIN c THEN c[key] ELSE default

\* system: platform.system(); config: PlatformConfig.config; apt:
\* shutil.which("apt-get") finds the tool; key: a Gemini API key was given
Hosts ==
    {[system |-> s, config |-> platform_config_json[s], apt |-> a, key |-> k] :
        s \in Systems, a \in BOOLEAN, k \in BOOLEAN} \ {h \in
    {[system |-> s, config |-> platform_config_json[s], apt |-> TRUE, key |-> k] :
        s \in Systems, k \in BOOLEAN} : h.system # "Linux"}

Home == <<"~">>

\* AptAn.source_dir
source_dir == <<"~", ".aptan", "sources">>

\* AptAn.install_dir
install_dir == <<"~", ".aptan", "installed">>

\* the path as the string the code puts in commands and messages
RECURSIVE PathStr(_)
PathStr(p) ==
    IF Len(p) = 0 THEN ""
    ELSE IF Len(p) = 1 THEN p[1]
    ELSE PathStr(dirname(p)) \o "/" \o basename(p)

(***************************************************************************)
(* What the outside world can hand to the pipeline.                        *)
(***************************************************************************)
PackageNames == {"foo", "Network"}

SourceUrls == {None, "", "http://mirror/pkg.tar.gz"}

Targets == {"native", "python", "ios", "javascript", "swift", "rust", None}

InstallEnvs == {None, "local"}

\* the answers a user types at the prompts of analyze_suitability
Answers == {"y", "Y", "n"}

PlainC == Text("int main() {\n  return 0;\n}\n")

SystemC == Text("int main() {\n  system(\"ls\");\n}\n")

\* the source trees a mirror or apt-get can deliver, as archive members
SourceTrees ==
    { {[name |-> <<"Makefile">>, data |-> Text("all:\n")],
       [name |-> <<"main.c">>, data |-> PlainC]},
      {[name |-> <<"main.c">>, data |-> SystemC],
       [name |-> <<"sub", "util.c">>, data |-> Text("int util;\n")]},
      {[name |-> <<"Makefile">>, data |-> Text("all:\n")],
       [name |-> <<"sub", "util.c">>, data |-> Text("int util;\n")]} }

\* an HTTP body that is no gzip tar archive
Garbage == Text("<html>404</html>")

\* the versions apt-get source can unpack, as the suffix of the folder name
AptVersions == {"1.0"}

(***************************************************************************)
(* Gemini (simulated).                                                     *)
(***************************************************************************)
\* "\n    ".join(prompt.splitlines()), from position i of prompt
RECURSIVE JoinIndented(_, _)
JoinIndented(prompt, i) ==
    IF i > Len(prompt) THEN ""
    ELSE IF SubSeq(prompt, i, i) = "\n"
         THEN (IF i = Len(prompt) THEN "" ELSE "\n    " \o JoinIndented(prompt, i + 1))
         ELSE SubSeq(prompt, i, i) \o JoinIndented(prompt, i + 1)

\* generate_code with nothing returned for a language it does not know
generate_code_known_only(prompt, target_language, system_label) ==
    IF target_language = "python"
    THEN "def main():\n    # Translated code (Python)\n    " \o JoinIndented(prompt, 1)
         \o "\n    print('Running on " \o system_label \o "')\n\n"
         \o "if __name__ == '__main__':\n    main()\n"
    ELSE IF target_language = "javascript"
    THEN "function main() {\n    // Translated code (JavaScript)\n    "
         \o JoinIndented(prompt, 1)
         \o "\n    console.log('Running on " \o system_label \o "');\n}\nmain();\n"
    ELSE IF target_language = "swift"
    THEN "func main() {\n    // Translated code (Swift)\n    " \o JoinIndented(prompt, 1)
         \o "\n    print(\"Running on " \o system_label \o "\")\n}\nmain()\n"
    ELSE ""

generate_code(prompt, target_language, system_label) ==
    IF target_language = "python"
    THEN "def main():\n    # Translated code (Python)\n    " \o JoinIndented(prompt, 1)
         \o "\n    print('Running on " \o system_label \o "')\n\n"
         \o "if __name__ == '__main__':\n    main()\n"
    ELSE IF target_language = "javascript"
    THEN "function main() {\n    // Translated code (JavaScript)\n    "
         \o JoinIndented(prompt, 1)
         \o "\n    console.log('Running on " \o system_label \o "');\n}\nmain();\n"
    ELSE IF target_language = "swift"
    THEN "func main() {\n    // Translated code (Swift)\n    " \o JoinIndented(prompt, 1)
         \o "\n    print(\"Running on " \o system_label \o "\")\n}\nmain()\n"
    ELSE "// Not supported: " \o target_language

\* answers: the replies to the two prompts, in order; a prompt that is not
\* shown consumes none.  [ret, out]
analyze_suitability(source_code, package_name, answers) ==
    LET net  == Contains(Lower(package_name), "network")
        sys  == Contains(source_code, "system")
        out1 == IF net THEN <<"Warning: '" \o package_name
                                \o "' is networking. Consider built-in libs.">>
                ELSE <<>>
    IN  IF net /\ Lower(answers[1]) # "y"
        THEN [ret |-> FALSE, out |-> out1]
        ELSE IF sys /\ Lower(answers[IF net THEN 2 ELSE 1]) # "y"
        THEN [ret |-> FALSE, out |-> out1 \o <<"Warning: potential sandbox issues.">>]
        ELSE [ret |-> TRUE,
              out |-> out1 \o (IF sys THEN <<"Warning: potential sandbox issues.">> ELSE <<>>)]

suggest_alternatives(package_name) ==
    IF Contains(Lower(package_name), "network")
    THEN "Try: 'requests' or 'socket' in Python, or iOS 'URLSession'."
    ELSE "No specific alternatives."

(***************************************************************************)
(* AptAn: the stages.  Each operator takes the file system and what the    *)
(* outside world does during the call (o) and gives the file system after  *)
(* the call, the returned value (ret), the exception that escaped the call *)
(* ("" when none did), the subprocess commands run (cmds) and the lines    *)
(* printed (out).                                                          *)
(***************************************************************************)
\* the folders os.listdir(temp_dir) shows after apt-get source has run
apt_folders(f, temp_dir) == {d \in listdir(f, temp_dir) : isdir(f, join(temp_dir, d))}

\* the file system after "apt-get source <package_name>" in temp_dir: o.version
\* is the version unpacked (None: nothing was unpacked), o.members its files;
\* a folder that is already there is left as it is
apt_get_source(f, temp_dir, package_name, o) ==
    LET folder == join(temp_dir, package_name \o "-" \o o.version)
    IN  IF o.kind # "ok" \/ o.version = None \/ exists(f, folder)
        THEN f
        ELSE extractall(makedirs(f, folder), o.members, folder)

\* the folder this run of apt-get source unpacks into temp_dir, None when it
\* unpacks nothing
apt_unpacked(f, temp_dir, package_name, o) ==
    LET folder == join(temp_dir, package_name \o "-" \o o.version)
    IN  IF o.kind # "ok" \/ o.version = None \/ exists(f, folder)
        THEN None
        ELSE package_name \o "-" \o o.version

\* o.kind: "ok", or "error" (CalledProcessError of apt-get, RequestException
\* of requests); o.body: the content served at the URL; o.pick: the folder
\* os.listdir lists first
download_source(f, h, package_name, url, o) ==
    LET source_url == IF url = None THEN "" ELSE url
        temp_dir   == join(source_dir, "temp_" \o package_name)
        f_apt      == apt_get_source(makedirs(f, temp_dir), temp_dir, package_name, o)
        local_tar  == join(source_dir, package_name \o ".tar.gz")
        extract_dir == join(source_dir, package_name)
        f_tar      == writefile(f, local_tar, o.body)
    IN  IF h.system = "Linux" /\ h.apt
        THEN IF o.kind = "error"
             THEN [fs |-> makedirs(f, temp_dir), ret |-> NoPath, raised |-> "",
                   cmds |-> <<"apt-get source " \o package_name>>,
                   out |-> <<"Error: CalledProcessError">>]
             ELSE IF apt_folders(f_apt, temp_dir) = {}
             THEN [fs |-> f_apt, ret |-> NoPath, raised |-> "",
                   cmds |-> <<"apt-get source " \o package_name>>,
                   out |-> <<"Error: apt-get source produced no folder.">>]
             ELSE [fs |-> f_apt, ret |-> join(temp_dir, o.pick), raised |-> "",
                   cmds |-> <<"apt-get source " \o package_name>>, out |-> <<>>]
        ELSE IF source_url = ""
             THEN [fs |-> f, ret |-> NoPath, raised |-> "", cmds |-> <<>>,
                   out |-> <<"No source URL provided.">>]
             ELSE IF o.kind = "error"
             THEN [fs |-> f, ret |-> NoPath, raised |-> "", cmds |-> <<>>,
                   out |-> <<"Error: RequestException">>]
             ELSE IF o.body.kind # "tar"
             THEN [fs |-> f_tar, ret |-> NoPath, raised |-> "tarfile.ReadError",
                   cmds |-> <<>>, out |-> <<>>]
             ELSE [fs |-> extractall(f_tar, o.body.members, extract_dir),
                   ret |-> extract_dir, raised |-> "", cmds |-> <<>>, out |-> <<>>]

\* os.walk(source_path): the (root, file) pairs of the regular files below it
walk(f, source_path) ==
    {<<dirname(q), basename(q)>> : q \in {r \in DOMAIN f.files : IsProperPrefix(source_path, r)}}

\* tar_member with the file name for arcname
tar_member_flat(f, source_path, w) ==
    [name |-> <<w[2]>>, data |-> f.files[join(w[1], w[2])]]

\* the member tar.add(fullp, arcname=relp) appends for the walked pair w
tar_member(f, source_path, w) ==
    LET fullp == join(w[1], w[2])
        relp  == relpath(fullp, source_path)
    IN  [name |-> relp, data |-> f.files[fullp]]

\* o: "ok", or "error" (any exception while the archive is written, which
\* leaves a truncated archive behind)
convert_to_targz(f, source_path, package_name, o) ==
    LET tar_file == join(source_dir, package_name \o ".tar.gz")
        members  == {tar_member(f, source_path, w) : w \in walk(f, source_path)}
    IN  IF o = "ok"
        THEN [fs |-> writefile(f, tar_file, Tar(members)), ret |-> tar_file,
              raised |-> "", cmds |-> <<>>, out |-> <<>>]
        ELSE [fs |-> writefile(f, tar_file, Text("")), ret |-> NoPath,
              raised |-> "", cmds |-> <<>>, out |-> <<"Failed">>]

\* extracted_dir with one directory for all packages
extracted_dir_shared(package_name) == join(source_dir, "_extracted")

\* install_package: the directory the archive is re-extracted into
extracted_dir(package_name) == join(source_dir, package_name \o "_extracted")

\* fresh_extracted without the shutil.rmtree
fresh_extracted_keeps(f, extracted) == makedirs(f, extracted)

\* install_package: a pre-existing extracted directory is removed, then the
\* directory is created
fresh_extracted(f, extracted) ==
    makedirs(IF exists(f, extracted) THEN rmtree(f, extracted) ELSE f, extracted)

\* install_package: tar.extractall(extracted) of the archive tarred; o:
\* "ok", or "error" (any exception of tarfile)
reextract(f, tarred, extracted, o) ==
    IF o = "ok" /\ tarred \in DOMAIN f.files /\ f.files[tarred].kind = "tar"
    THEN [fs |-> extractall(f, f.files[tarred].members, extracted), ret |-> TRUE,
          raised |-> "", cmds |-> <<>>, out |-> <<>>]
    ELSE [fs |-> f, ret |-> FALSE, raised |-> "", cmds |-> <<>>,
          out |-> <<"Extraction error">>]

\* what a successful run of the build command leaves in the directory
BuildOutput == [name |-> <<"a.out">>, data |-> Text("ELF")]

\* build_native without the check for the Makefile
build_native_unchecked(f, h, extract_dir, package_name, o) ==
    LET cmd == "cd " \o PathStr(extract_dir) \o " && "
               \o get_config(h.config, "build_command", "make")
    IN  IF o = "ok" /\ exists(f, join(extract_dir, "Makefile"))
        THEN [fs |-> extractall(f, {BuildOutput}, extract_dir), ret |-> TRUE,
              raised |-> "", cmds |-> <<cmd>>,
              out |-> <<"'" \o package_name \o "' built successfully (native).">>]
        ELSE [fs |-> f, ret |-> FALSE, raised |-> "", cmds |-> <<cmd>>,
              out |-> <<"Build error: CalledProcessError">>]

\* o: "ok" (the build command exits 0) or "error" (CalledProcessError)
build_native(f, h, extract_dir, package_name, o) ==
    LET makefile  == join(extract_dir, "Makefile")
        build_cmd == get_config(h.config, "build_command", "make")
        cmd       == "cd " \o PathStr(extract_dir) \o " && " \o build_cmd
    IN  IF ~exists(f, makefile)
        THEN [fs |-> f, ret |-> FALSE, raised |-> "", cmds |-> <<>>,
              out |-> <<"No Makefile in " \o PathStr(extract_dir)
                          \o ". Skipping native build.">>]
        ELSE IF o = "ok"
        THEN [fs |-> extractall(f, {BuildOutput}, extract_dir), ret |-> TRUE,
              raised |-> "", cmds |-> <<cmd>>,
              out |-> <<"'" \o package_name \o "' built successfully (native).">>]
        ELSE [fs |-> f, ret |-> FALSE, raised |-> "", cmds |-> <<cmd>>,
              out |-> <<"Build error: CalledProcessError">>]

translate_to_language(f, h, extract_dir, package_name, target_language) ==
    LET main_c     == join(extract_dir, "main.c")
        translated == generate_code(f.files[main_c].text, target_language, h.system)
        out_file   == join(extract_dir, package_name \o "." \o target_language)
    IN  IF ~h.key
        THEN [fs |-> f, ret |-> FALSE, raised |-> "", cmds |-> <<>>,
              out |-> <<"Gemini not configured.">>, generated |-> FALSE]
        ELSE IF ~exists(f, main_c)
        THEN [fs |-> f, ret |-> FALSE, raised |-> "", cmds |-> <<>>,
              out |-> <<"No main.c to translate.">>, generated |-> FALSE]
        ELSE IF translated = ""
        THEN [fs |-> f, ret |-> FALSE, raised |-> "", cmds |-> <<>>,
              out |-> <<"Translation failed.">>, generated |-> TRUE]
        ELSE [fs |-> writefile(f, out_file, Text(translated)), ret |-> TRUE,
              raised |-> "", cmds |-> <<>>,
              out |-> <<"Translated '" \o package_name \o "' -> " \o PathStr(out_file)
                          \o " (" \o target_language \o ")">>,
              generated |-> TRUE]

\* the SwiftUI entry source build_ios_app writes
main_swift_text(package_name) ==
    "\nimport SwiftUI\n@main\nstruct " \o package_name \o "App: App {\n"
    \o "    var body: some Scene {\n        WindowGroup {\n            ContentView()\n"
    \o "        }\n    }\n}\nstruct ContentView: View {\n    var body: some View {\n"
    \o "        Text(\"Hello from " \o package_name \o "!\")\n    }\n}\n"

\* the project files os.listdir(extract_dir) shows
xcode_projects(f, extract_dir) ==
    {x \in listdir(f, extract_dir) : EndsWith(x, ".xcodeproj")}

\* ios_scaffold that writes main.swift whether or not it is there
ios_scaffold_overwrites(f, extract_dir, package_name) ==
    writefile(writefile(makedirs(f, join(extract_dir, package_name \o ".xcodeproj")),
                        join(join(extract_dir, package_name \o ".xcodeproj"),
                             "project.pbxproj"),
                        Text("// minimal xcodeproj")),
              join(extract_dir, "main.swift"), Text(main_swift_text(package_name)))

\* the minimal project and entry source written when no project is there
ios_scaffold(f, extract_dir, package_name) ==
    LET xcode_proj == join(extract_dir, package_name \o ".xcodeproj")
        main_swift == join(extract_dir, "main.swift")
        f1 == writefile(makedirs(f, xcode_proj), join(xcode_proj, "project.pbxproj"),
                        Text("// minimal xcodeproj"))
    IN  IF exists(f1, main_swift) THEN f1
        ELSE writefile(f1, main_swift, Text(main_swift_text(package_name)))

\* o.kind: "ok" (xcodebuild exits 0) or "error" (CalledProcessError);
\* o.pick: the project os.listdir lists first
build_ios_app(f, h, extract_dir, package_name, o) ==
    LET found == xcode_projects(f, extract_dir)
        f1    == IF found = {} THEN ios_scaffold(f, extract_dir, package_name) ELSE f
        proj  == IF found = {} THEN package_name \o ".xcodeproj" ELSE o.pick
        cmd   == "xcodebuild -project " \o PathStr(join(extract_dir, proj)) \o " -scheme "
                 \o package_name \o " -configuration Release"
                 \o " -destination generic/platform=iOS build"
    IN  IF h.system # "Darwin"
        THEN [fs |-> f, ret |-> FALSE, raised |-> "", cmds |-> <<>>,
              out |-> <<"iOS build requires macOS.">>]
        ELSE IF o.kind = "ok"
        THEN [fs |-> f1, ret |-> TRUE, raised |-> "", cmds |-> <<cmd>>,
              out |-> <<"iOS app '" \o package_name \o "' built.">>]
        ELSE [fs |-> f1, ret |-> FALSE, raised |-> "", cmds |-> <<cmd>>,
              out |-> <<"iOS build failed: CalledProcessError">>]

\* install_and_configure: the install root
install_path(h, package_name, install_env) ==
    IF install_env # None /\ install_env # ""
    THEN join(join(install_dir, "envs"), install_env)
    ELSE IF h.system = "Linux" THEN <<"/usr", "local", "lib">>
    ELSE IF h.system = "Windows" THEN <<"C:", "Program Files", package_name>>
    ELSE <<"/usr", "local", "lib">>

\* shutil.copytree(src, dst, dirs_exist_ok=True) and shutil.copy2(src, dst)
\* cannot write: a regular file is where a directory is needed, or a
\* directory where the file would go
copy_conflict(f, src, dst) ==
    IF isdir(f, src)
    THEN \/ dst \in DOMAIN f.files
         \/ \E q \in DOMAIN f.files : IsProperPrefix(src, q) /\ isdir(f, dst \o relpath(q, src))
         \/ \E d \in f.dirs : IsProperPrefix(src, d) /\ (dst \o relpath(d, src)) \in DOMAIN f.files
    ELSE isdir(f, dst) /\ isdir(f, join(dst, basename(src)))

\* one turn of the copy loop: a directory is merged into dst, a file is
\* copied to dst, or into dst when dst is a directory
copy_item(f, src, dst) ==
    IF isdir(f, src)
    THEN [files |-> [q \in (DOMAIN f.files)
                            \cup {dst \o relpath(r, src) :
                                    r \in {x \in DOMAIN f.files : IsProperPrefix(src, x)}} |->
                        IF IsPrefix(dst, q) /\ (src \o relpath(q, dst)) \in DOMAIN f.files
                        THEN f.files[src \o relpath(q, dst)]
                        ELSE f.files[q]],
          dirs  |-> f.dirs \cup {dst \o relpath(d, src) : d \in {x \in f.dirs : IsPrefix(src, x)}}]
    ELSE writefile(f, IF isdir(f, dst) THEN join(dst, basename(src)) ELSE dst, f.files[src])

\* copy_items that replaces the install root wholesale by the entries
copy_items_replacing(f, extract_dir, root, items) ==
    extractall(makedirs(rmtree(f, root), root),
               {[name |-> r, data |-> tree(f, extract_dir)[r]] :
                   r \in {x \in DOMAIN tree(f, extract_dir) : x[1] \in items}},
               root)

\* the copy loop over the entries os.listdir(extract_dir) gives
RECURSIVE copy_items(_, _, _, _)
copy_items(f, extract_dir, root, items) ==
    IF items = {} THEN f
    ELSE LET item == CHOOSE i \in items : TRUE
         IN  copy_items(copy_item(f, join(extract_dir, item), join(root, item)),
                        extract_dir, root, items \ {item})

\* install_record with the platform written as a fixed string
install_record_fixed_platform(h, package_name, now) ==
    Json([package_name |-> package_name, install_time |-> now, platform |-> "Linux"])

\* the install record written as <package_name>_config.json
install_record(h, package_name, now) ==
    Json([package_name |-> package_name, install_time |-> now, platform |-> h.system])

\* the lines appended to ~/.bashrc
bashrc_lines(package_name, root) ==
    "\n# AptAn for " \o package_name \o "\n"
    \o "export PATH=\"" \o PathStr(root) \o ":$PATH\"\n"

\* appendfile that writes nothing when the file already holds the text
appendfile_once(f, p, text) ==
    IF p \in DOMAIN f.files /\ Contains(f.files[p].text, text) THEN f
    ELSE writefile(f, p, Text((IF p \in DOMAIN f.files THEN f.files[p].text ELSE "") \o text))

\* open(p, "a").write(text)
appendfile(f, p, text) ==
    writefile(f, p, Text((IF p \in DOMAIN f.files THEN f.files[p].text ELSE "") \o text))

\* write_record that leaves a record that is already there as it is
write_record_once(f, conf_file, data) ==
    IF conf_file \in DOMAIN f.files THEN f ELSE writefile(f, conf_file, data)

\* with open(conf_file, "w") as f: json.dump(data, f, indent=4)
write_record(f, conf_file, data) == writefile(f, conf_file, data)

\* now: the time on the clock; o.fail: "" when no I/O error occurs, or the
\* step an OSError is raised in ("copy", "record"); o.copied: the entries
\* copied before the failing copy
install_and_configure(f, h, extract_dir, package_name, install_env, now, o) ==
    LET root      == install_path(h, package_name, install_env)
        items     == listdir(f, extract_dir)
        f1        == makedirs(f, root)
        clash     == {i \in items : copy_conflict(f1, join(extract_dir, i), join(root, i))}
        f_part    == copy_items(f1, extract_dir, root, (o.copied \cap items) \ clash)
        f2        == copy_items(f1, extract_dir, root, items)
        conf_file == join(root, package_name \o "_config.json")
        f3        == write_record(f2, conf_file, install_record(h, package_name, now))
        bashrc    == join(Home, ".bashrc")
        f4        == IF h.system = "Linux"
                     THEN appendfile(f3, bashrc, bashrc_lines(package_name, root))
                     ELSE f3
        say       == <<"Installing '" \o package_name
                         \o (IF install_env # None /\ install_env # ""
                             THEN "' to environment: " ELSE "' to: ")
                         \o PathStr(root)>>
    IN  IF o.fail = "copy" \/ clash # {}
        THEN [fs |-> f_part, ret |-> None, raised |-> "OSError", cmds |-> <<>>, out |-> say]
        ELSE IF o.fail = "record"
        THEN [fs |-> f2, ret |-> None, raised |-> "OSError", cmds |-> <<>>, out |-> say]
        ELSE [fs |-> f4, ret |-> None, raised |-> "", cmds |-> <<>>,
              out |-> say \o <<"Installation complete for '" \o package_name \o "'.">>]

(***************************************************************************)
(* install_package, one action per stage.  inv[p] is the invocation that   *)
(* process p is in: its arguments, its locals, the place it has reached    *)
(* (pc), the value returned (ret: "True", "False", or "raised" when an     *)
(* exception left install_package), and, as history of this invocation,    *)
(* the stages run with their results, the subprocess commands run, the     *)
(* lines printed, the content of the extracted directory found before it   *)
(* was cleaned and the folder its apt-get source unpacked (fetched).  prev  *)
(* keeps, of the invocation before, the package name, the source URL and   *)
(* the extracted directory.                                                *)
(*                                                                         *)
(* The arguments target_platform and install_env are fixed by the caller   *)
(* and install_package reads them first in the dispatch and in             *)
(* install_and_configure: the model draws each where it is first read      *)
(* (Unread until then), which gives the same behaviours with fewer         *)
(* intermediate states.                                                    *)
(***************************************************************************)
Unread == "<unread>"

NoPrev == [package_name |-> None, source_url |-> None, extracted |-> NoPath]

\* the front end (command line, notebook magic, notebook handler) when
\* install_package is called directly: none is running
NoUi == [cmd |-> "none", pc |-> "idle"]

\* no archive was downloaded from a URL
NoBody == [kind |-> "none"]

\* an invocation not yet made; targets and envs are the values its caller may
\* pass as target_platform and install_env
Idle ==
    [pc |-> "idle", package_name |-> None, source_url |-> None, target_platform |-> Unread,
     install_env |-> Unread, src_dir |-> NoPath, tarred |-> NoPath, extracted |-> NoPath,
     ret |-> "", raised |-> "", stages |-> <<>>, cmds |-> <<>>, out |-> <<>>,
     stale |-> <<>>, fetched |-> None, served |-> NoBody, targets |-> Targets,
     envs |-> InstallEnvs]

\* the invocation of p after stage has run with result r; res is "ok",
\* "failed" or "raised"
Ran(p, stage, res, r) ==
    [inv[p] EXCEPT !.stages = Append(@, [stage |-> stage, result |-> res]),
                   !.cmds = @ \o r.cmds,
                   !.out = @ \o r.out]

\* install_package returns value
Return(i, value) == [i EXCEPT !.pc = "returned", !.ret = value]

\* pipeline_next with the "return False" after a failed convert_to_targz left out
pipeline_next_convert_goes_on(stage, ok) ==
    IF ~ok /\ stage # "convert_to_targz" THEN "returned"
    ELSE CASE stage = "download_source" -> "convert"
           [] stage = "convert_to_targz" -> "clean"
           [] stage = "reextract" -> "gate"
           [] stage = "analyze_suitability" -> "dispatch"
           [] stage = "build_native" -> "install"
           [] stage = "translate_to_language" -> "install"
           [] stage = "build_ios_app" -> "returned"
           [] stage = "install_and_configure" -> "returned"

\* pipeline_next with the "return False" after a failed download_source left out
pipeline_next_download_goes_on(stage, ok) ==
    IF ~ok /\ stage # "download_source" THEN "returned"
    ELSE CASE stage = "download_source" -> "convert"
           [] stage = "convert_to_targz" -> "clean"
           [] stage = "reextract" -> "gate"
           [] stage = "analyze_suitability" -> "dispatch"
           [] stage = "build_native" -> "install"
           [] stage = "translate_to_language" -> "install"
           [] stage = "build_ios_app" -> "returned"
           [] stage = "install_and_configure" -> "returned"

\* pipeline_next with the answer of the suitability gate ignored
pipeline_next_gate_ignored(stage, ok) ==
    IF ~ok /\ stage # "analyze_suitability" THEN "returned"
    ELSE CASE stage = "download_source" -> "convert"
           [] stage = "convert_to_targz" -> "clean"
           [] stage = "reextract" -> "gate"
           [] stage = "analyze_suitability" -> "dispatch"
           [] stage = "build_native" -> "install"
           [] stage = "translate_to_language" -> "install"
           [] stage = "build_ios_app" -> "returned"
           [] stage = "install_and_configure" -> "returned"

\* pipeline_next with install_and_configure called whatever build_native returned
pipeline_next_install_unbuilt(stage, ok) ==
    IF ~ok /\ stage # "build_native" THEN "returned"
    ELSE CASE stage = "download_source" -> "convert"
           [] stage = "convert_to_targz" -> "clean"
           [] stage = "reextract" -> "gate"
           [] stage = "analyze_suitability" -> "dispatch"
           [] stage = "build_native" -> "install"
           [] stage = "translate_to_language" -> "install"
           [] stage = "build_ios_app" -> "returned"
           [] stage = "install_and_configure" -> "returned"

\* pipeline_next with the native branch returning True without the install
pipeline_next_native_no_install(stage, ok) ==
    IF ~ok THEN "returned"
    ELSE CASE stage = "download_source" -> "convert"
           [] stage = "convert_to_targz" -> "clean"
           [] stage = "reextract" -> "gate"
           [] stage = "analyze_suitability" -> "dispatch"
           [] stage = "build_native" -> "returned"
           [] stage = "translate_to_language" -> "install"
           [] stage = "build_ios_app" -> "returned"
           [] stage = "install_and_configure" -> "returned"

\* install_package: where control goes once stage has reported success (ok)
\* or failure
pipeline_next(stage, ok) ==
    IF ~ok THEN "returned"
    ELSE CASE stage = "download_source" -> "convert"
           [] stage = "convert_to_targz" -> "clean"
           [] stage = "reextract" -> "gate"
           [] stage = "analyze_suitability" -> "dispatch"
           [] stage = "build_native" -> "install"
           [] stage = "translate_to_language" -> "install"
           [] stage = "build_ios_app" -> "returned"
           [] stage = "install_and_configure" -> "returned"

\* the invocation i after stage has reported: it goes on, or it returns the
\* report as its result
Advance(i, stage, ok) ==
    IF pipeline_next(stage, ok) = "returned"
    THEN Return(i, IF ok THEN "True" ELSE "False")
    ELSE [i EXCEPT !.pc = pipeline_next(stage, ok)]

\* "ok" or "failed"
Result(ok) == IF ok THEN "ok" ELSE "failed"

\* an exception leaves install_package
Raise(i, exc) == [i EXCEPT !.pc = "returned", !.ret = "raised", !.raised = exc]

\* a caller invokes install_package, at most max times in all
Call(p, max) ==
    /\ inv[p].pc \in {"idle", "returned"}
    /\ clock < max
    /\ \E n \in PackageNames, u \in SourceUrls :
          inv' = [inv EXCEPT ![p] = [Idle EXCEPT !.pc = "download", !.package_name = n,
                                                 !.source_url = u]]
    /\ prev' = IF inv[p].pc = "returned"
               THEN [package_name |-> inv[p].package_name, source_url |-> inv[p].source_url,
                     extracted |-> inv[p].extracted]
               ELSE prev
    /\ clock' = clock + 1
    /\ UNCHANGED <<ui, host, fs>>

\* what can happen during download_source, given the file system it starts in
DownloadOutcomes(f, h, package_name) ==
    IF h.system = "Linux" /\ h.apt
    THEN {[kind |-> "error", body |-> Garbage, version |-> None, members |-> {}, pick |-> None]}
         \cup
         {o \in [kind : {"ok"}, body : {Garbage}, version : AptVersions \cup {None},
                 members : SourceTrees,
                 pick : {package_name \o "-" \o v : v \in AptVersions} \cup {None}] :
            LET temp_dir == join(source_dir, "temp_" \o package_name)
                folders  == apt_folders(apt_get_source(makedirs(f, temp_dir), temp_dir,
                                                       package_name, o), temp_dir)
            IN  IF folders = {} THEN o.pick = None ELSE o.pick \in folders}
    ELSE {[kind |-> "error", body |-> Garbage, version |-> None, members |-> {}, pick |-> None]}
         \cup
         {[kind |-> "ok", body |-> b, version |-> None, members |-> {}, pick |-> None] :
            b \in {Tar(t) : t \in SourceTrees} \cup {Garbage}}

Download(p) ==
    /\ inv[p].pc = "download"
    /\ \E o \in DownloadOutcomes(fs, host, inv[p].package_name) :
          LET r == download_source(fs, host, inv[p].package_name, inv[p].source_url, o)
          IN  /\ fs' = r.fs
              /\ inv' = [inv EXCEPT ![p] =
                    IF r.raised # ""
                    THEN Raise(Ran(p, "download_source", "raised", r), r.raised)
                    ELSE Advance([Ran(p, "download_source", Result(r.ret # NoPath), r)
                                     EXCEPT !.src_dir = r.ret,
                                            !.fetched =
                                                IF host.system = "Linux" /\ host.apt
                                                THEN apt_unpacked(
                                                        makedirs(fs, join(source_dir,
                                                            "temp_" \o inv[p].package_name)),
                                                        join(source_dir,
                                                            "temp_" \o inv[p].package_name),
                                                        inv[p].package_name, o)
                                                ELSE None,
                                            !.served =
                                                IF /\ ~(host.system = "Linux" /\ host.apt)
                                                   /\ inv[p].source_url \notin {None, ""}
                                                   /\ o.kind = "ok"
                                                THEN o.body
                                                ELSE NoBody],
                                 "download_source", r.ret # NoPath)]
    /\ UNCHANGED <<ui, host, prev, clock>>

Convert(p) ==
    /\ inv[p].pc = "convert"
    /\ \E o \in {"ok", "error"} :
          LET r == convert_to_targz(fs, inv[p].src_dir, inv[p].package_name, o)
          IN  /\ fs' = r.fs
              /\ inv' = [inv EXCEPT ![p] =
                    Advance([Ran(p, "convert_to_targz", Result(r.ret # NoPath), r)
                                EXCEPT !.tarred = r.ret],
                            "convert_to_targz", r.ret # NoPath)]
    /\ UNCHANGED <<ui, host, prev, clock>>

\* Clean with a lock on the extracted directory: it waits while another
\* invocation for the same package name is between its own Clean and its return
Clean_guarded(p) ==
    /\ inv[p].pc = "clean"
    /\ \A q \in Procs \ {p} :
          ~(/\ inv[q].package_name = inv[p].package_name
            /\ inv[q].pc \in {"extract", "gate", "dispatch", "install"})
    /\ LET extracted == extracted_dir(inv[p].package_name)
       IN  /\ fs' = fresh_extracted(fs, extracted)
           /\ inv' = [inv EXCEPT ![p].pc = "extract",
                                 ![p].extracted = extracted,
                                 ![p].stale = tree(fs, extracted)]
    /\ UNCHANGED <<ui, host, prev, clock>>

\* install_package, "Re-extract": the extracted directory is removed and
\* created anew; nothing is locked or checked before
Clean(p) ==
    /\ inv[p].pc = "clean"
    /\ LET extracted == extracted_dir(inv[p].package_name)
       IN  /\ fs' = fresh_extracted(fs, extracted)
           /\ inv' = [inv EXCEPT ![p].pc = "extract",
                                 ![p].extracted = extracted,
                                 ![p].stale = tree(fs, extracted)]
    /\ UNCHANGED <<ui, host, prev, clock>>

Extract(p) ==
    /\ inv[p].pc = "extract"
    /\ \E o \in {"ok", "error"} :
          LET r == reextract(fs, inv[p].tarred, inv[p].extracted, o)
          IN  /\ fs' = r.fs
              /\ inv' = [inv EXCEPT ![p] =
                    Advance(Ran(p, "reextract", Result(r.ret), r), "reextract", r.ret)]
    /\ UNCHANGED <<ui, host, prev, clock>>

\* install_package consults the suitability gate
gate_consulted(f, h, extracted) == exists(f, join(extracted, "main.c")) /\ h.key

Gate(p) ==
    /\ inv[p].pc = "gate"
    /\ IF gate_consulted(fs, host, inv[p].extracted)
       THEN \E answers \in Answers \X Answers :
               LET code == fs.files[join(inv[p].extracted, "main.c")].text
                   a    == analyze_suitability(code, inv[p].package_name, answers)
                   r    == [cmds |-> <<>>,
                            out |-> IF a.ret THEN a.out
                                    ELSE Append(a.out, suggest_alternatives(inv[p].package_name))]
               IN  inv' = [inv EXCEPT ![p] =
                      Advance(Ran(p, "analyze_suitability", Result(a.ret), r),
                              "analyze_suitability", a.ret)]
       ELSE inv' = [inv EXCEPT ![p].pc = "dispatch"]
    /\ UNCHANGED <<ui, host, fs, prev, clock>>

\* dispatch with the final else sent to the translator
dispatch_unknown_translates(target_platform, gemini) ==
    IF target_platform = "python" /\ gemini THEN "python"
    ELSE IF target_platform = "native" THEN "native"
    ELSE IF target_platform = "ios" THEN "ios"
    ELSE "translate"

\* install_package, "Decide how to build or translate": the branch taken
dispatch(target_platform, gemini) ==
    IF target_platform = "python" /\ gemini THEN "python"
    ELSE IF target_platform = "native" THEN "native"
    ELSE IF target_platform = "ios" THEN "ios"
    ELSE IF target_platform \in {"javascript", "swift"} THEN "translate"
    ELSE "unknown"

\* the lines the branch prints before it calls its backend
dispatch_out(target_platform, gemini) ==
    IF dispatch(target_platform, gemini) = "unknown"
    THEN <<"Unknown target '" \o target_platform \o "'. Attempting native build.">>
    ELSE <<>>

\* install_package reads target_platform
Dispatch(p) ==
    /\ inv[p].pc = "dispatch"
    /\ inv[p].target_platform = Unread
    /\ \E t \in inv[p].targets : inv' = [inv EXCEPT ![p].target_platform = t]
    /\ UNCHANGED <<ui, host, fs, prev, clock>>

\* the python branch: the translation is put into the next notebook cell.
\* ipy is what get_ipython() gives in this call: "session", "none", or
\* "NameError" when the name was never imported
PythonCell(p) ==
    /\ inv[p].pc = "dispatch"
    /\ inv[p].target_platform # Unread
    /\ dispatch(inv[p].target_platform, host.key) = "python"
    /\ LET main_c == join(inv[p].extracted, "main.c")
       IN  IF ~exists(fs, main_c)
           THEN inv' = [inv EXCEPT ![p] = Raise(@, "FileNotFoundError")]
           ELSE \E ipy \in {"session", "none", "NameError"} :
                   inv' = [inv EXCEPT ![p] =
                      IF ipy = "NameError" THEN Raise(@, "NameError")
                      ELSE IF ipy = "session"
                      THEN Return(Ran(p, "generate_code", "ok",
                                      [cmds |-> <<>>,
                                       out |-> <<"Inserted Python code into next cell.">>]),
                                  "True")
                      ELSE Return(Ran(p, "get_ipython", "ok",
                                      [cmds |-> <<>>, out |-> <<"No IPython session found.">>]),
                                  "True")]
    /\ UNCHANGED <<ui, host, fs, prev, clock>>

BuildNative(p) ==
    /\ inv[p].pc = "dispatch"
    /\ inv[p].target_platform # Unread
    /\ dispatch(inv[p].target_platform, host.key) \in {"native", "unknown"}
    /\ \E o \in {"ok", "error"} :
          LET r   == build_native(fs, host, inv[p].extracted, inv[p].package_name, o)
              pre == [inv[p] EXCEPT
                         !.out = @ \o dispatch_out(inv[p].target_platform, host.key)]
              i   == [pre EXCEPT !.stages = Append(@, [stage |-> "build_native",
                                                       result |-> Result(r.ret)]),
                                 !.cmds = @ \o r.cmds,
                                 !.out = @ \o r.out]
          IN  /\ fs' = r.fs
              /\ inv' = [inv EXCEPT ![p] = Advance(i, "build_native", r.ret)]
    /\ UNCHANGED <<ui, host, prev, clock>>

BuildIos(p) ==
    /\ inv[p].pc = "dispatch"
    /\ inv[p].target_platform # Unread
    /\ dispatch(inv[p].target_platform, host.key) = "ios"
    /\ \E k \in {"ok", "error"},
          pick \in IF xcode_projects(fs, inv[p].extracted) = {} THEN {None}
                   ELSE xcode_projects(fs, inv[p].extracted) :
          LET r == build_ios_app(fs, host, inv[p].extracted, inv[p].package_name,
                                 [kind |-> k, pick |-> pick])
          IN  /\ fs' = r.fs
              /\ inv' = [inv EXCEPT ![p] =
                    Advance([Ran(p, "build_ios_app", Result(r.ret), r) EXCEPT
                                !.out = IF r.ret
                                        THEN Append(@, "iOS app '" \o inv[p].package_name
                                                        \o "' built successfully.")
                                        ELSE @],
                            "build_ios_app", r.ret)]
    /\ UNCHANGED <<ui, host, prev, clock>>

Translate(p) ==
    /\ inv[p].pc = "dispatch"
    /\ inv[p].target_platform # Unread
    /\ dispatch(inv[p].target_platform, host.key) = "translate"
    /\ LET r == translate_to_language(fs, host, inv[p].extracted, inv[p].package_name,
                                      inv[p].target_platform)
       IN  /\ fs' = r.fs
           /\ inv' = [inv EXCEPT ![p] =
                 Advance(Ran(p, "translate_to_language", Result(r.ret), r),
                         "translate_to_language", r.ret)]
    /\ UNCHANGED <<ui, host, prev, clock>>

\* what can happen during install_and_configure: no I/O error, an error at
\* the first entry copied, or an error when the record is written
InstallOutcomes == {[fail |-> k, copied |-> {}] : k \in {"", "copy", "record"}}

Install(p) ==
    /\ inv[p].pc = "install"
    /\ \E o \in InstallOutcomes, e \in inv[p].envs :
          LET r == install_and_configure(fs, host, inv[p].extracted, inv[p].package_name,
                                         e, clock, o)
              i == [Ran(p, "install_and_configure", IF r.raised # "" THEN "raised" ELSE "ok",
                        r) EXCEPT !.install_env = e]
          IN  /\ fs' = r.fs
              /\ inv' = [inv EXCEPT ![p] =
                    IF r.raised # "" THEN Raise(i, r.raised)
                    ELSE Advance(i, "install_and_configure", TRUE)]
    /\ UNCHANGED <<ui, host, prev, clock>>

(***************************************************************************)
(* The specifications: one process calls install_package, once and again.  *)
(***************************************************************************)
\* AptAn.__init__ has created source_dir and install_dir; the home directory
\* holds the user's ~/.bashrc
InitFs ==
    writefile(makedirs(makedirs([files |-> <<>>, dirs |-> {}], source_dir), install_dir),
              join(Home, ".bashrc"), Text("# ~/.bashrc\n"))

Init ==
    /\ host \in Hosts
    /\ fs = InitFs
    /\ inv = [p \in Procs |-> Idle]
    /\ prev = NoPrev
    /\ clock = 0
    /\ ui = NoUi

\* the stages of install_package, in process p
Stage(p) ==
    \/ Download(p)
    \/ Convert(p)
    \/ Clean(p)
    \/ Extract(p)
    \/ Gate(p)
    \/ Dispatch(p)
    \/ PythonCell(p)
    \/ BuildNative(p)
    \/ BuildIos(p)
    \/ Translate(p)
    \/ Install(p)

Next == \E p \in {1} : Call(p, MaxInvocations) \/ Stage(p)

Spec == Init /\ [][Next]_vars

NextRepeat == \E p \in {1} : Call(p, MaxRepeated) \/ Stage(p)

\* the same process, with a workspace that earlier invocations have used
SpecRepeat == Init /\ [][NextRepeat]_vars

(***************************************************************************)
(* The backends called directly: translate_to_language and build_ios_app   *)
(* are methods of AptAn that a caller can invoke on an extracted directory *)
(* that is already there, with any target language.                        *)
(***************************************************************************)
\* the calls made in SpecUnit
MaxUnitCalls == 1

\* the target languages a caller passes
Languages == {"python", "javascript", "swift", "rust", "kotlin"}

\* what the extracted directories hold before the call
UnitTrees ==
    { {[name |-> <<"main.c">>, data |-> PlainC]},
      {[name |-> <<"main.c">>, data |-> PlainC],
       [name |-> <<"main.swift">>, data |-> Text("// mine\n")]},
      {[name |-> <<"Makefile">>, data |-> Text("all:\n")]},
      {[name |-> <<"main.c">>, data |-> SystemC],
       [name |-> <<"App.xcodeproj", "project.pbxproj">>, data |-> Text("// App")]},
      {[name |-> <<"main.swift">>, data |-> Text("// mine\n")]} }

InitUnit ==
    /\ host \in Hosts
    /\ fs \in {extractall(makedirs(InitFs, extracted_dir(n)), t, extracted_dir(n)) :
                  n \in PackageNames, t \in UnitTrees}
    /\ inv = [p \in Procs |-> Idle]
    /\ prev = NoPrev
    /\ clock = 0
    /\ ui = NoUi

\* the call of a backend by p on the extracted directory of package n
UnitCall(p, n, language) ==
    [Idle EXCEPT !.package_name = n, !.target_platform = language,
                 !.extracted = extracted_dir(n)]

\* p calls translate_to_language(extract_dir, package_name, target_language)
TranslateCall(p) ==
    /\ inv[p].pc \in {"idle", "returned"}
    /\ clock < MaxUnitCalls
    /\ \E n \in PackageNames, language \in Languages :
          /\ isdir(fs, extracted_dir(n))
          /\ LET r == translate_to_language(fs, host, extracted_dir(n), n, language)
                 i == UnitCall(p, n, language)
             IN  /\ fs' = r.fs
                 /\ inv' = [inv EXCEPT ![p] =
                       Return([i EXCEPT !.stages = <<[stage |-> "translate_to_language",
                                                      result |-> Result(r.ret)]>>,
                                        !.cmds = r.cmds, !.out = r.out],
                              IF r.ret THEN "True" ELSE "False")]
    /\ clock' = clock + 1
    /\ UNCHANGED <<ui, host, prev>>

\* p calls build_ios_app(extract_dir, package_name)
IosCall(p) ==
    /\ inv[p].pc \in {"idle", "returned"}
    /\ clock < MaxUnitCalls
    /\ \E n \in PackageNames, k \in {"ok", "error"} :
          /\ isdir(fs, extracted_dir(n))
          /\ \E pick \in IF xcode_projects(fs, extracted_dir(n)) = {} THEN {None}
                         ELSE xcode_projects(fs, extracted_dir(n)) :
                LET r == build_ios_app(fs, host, extracted_dir(n), n,
                                       [kind |-> k, pick |-> pick])
                    i == UnitCall(p, n, "ios")
                IN  /\ fs' = r.fs
                    /\ inv' = [inv EXCEPT ![p] =
                          Return([i EXCEPT !.stages = <<[stage |-> "build_ios_app",
                                                         result |-> Result(r.ret)]>>,
                                           !.cmds = r.cmds, !.out = r.out],
                                 IF r.ret THEN "True" ELSE "False")]
    /\ clock' = clock + 1
    /\ UNCHANGED <<ui, host, prev>>

NextUnit == \E p \in {1} : TranslateCall(p) \/ IosCall(p)

SpecUnit == InitUnit /\ [][NextUnit]_vars

(***************************************************************************)
(* Two callers in install_package at the same time: AptAn takes no lock,   *)
(* so the stages of the two invocations interleave in any order.           *)
(***************************************************************************)
\* the invocations made in SpecRace, over both processes
MaxConcurrent == 2

\* package names of which one is the other with the suffix that
\* install_package appends for the extracted directory
RaceNames == {"foo", "foo_extracted"}

\* the targets the two callers pass: one for each backend
RaceTargets == {"native", "python", "ios", "javascript"}

\* the host of SpecRace: Linux without apt-get, with an API key
RaceHosts == {h \in Hosts : h.system = "Linux" /\ ~h.apt /\ h.key}

InitRace ==
    /\ host \in RaceHosts
    /\ fs = InitFs
    /\ inv = [p \in Procs |-> Idle]
    /\ prev = NoPrev
    /\ clock = 0
    /\ ui = NoUi

\* a caller invokes install_package with a URL and no install_env, at most
\* max times in all; the first caller installs "foo", the second any name
CallRace(p, max) ==
    /\ inv[p].pc \in {"idle", "returned"}
    /\ clock < max
    /\ \E n \in IF p = 1 THEN {"foo"} ELSE RaceNames :
          inv' = [inv EXCEPT ![p] = [Idle EXCEPT !.pc = "download", !.package_name = n,
                                                 !.source_url = "http://mirror/pkg.tar.gz",
                                                 !.targets = RaceTargets,
                                                 !.envs = {None}]]
    /\ clock' = clock + 1
    /\ UNCHANGED <<ui, host, fs, prev>>

NextRace == \E p \in Procs : CallRace(p, MaxConcurrent) \/ Stage(p)

SpecRace == InitRace /\ [][NextRace]_vars

\* the workspace paths an invocation of install_package for package_name
\* reads or writes: the downloaded archive (which is also the normalized
\* archive), the directory the download is unpacked into, the temporary
\* directory of apt-get source, and the extracted directory
workspace_paths(package_name) ==
    { join(source_dir, package_name \o ".tar.gz"),
      join(source_dir, package_name),
      join(source_dir, "temp_" \o package_name),
      extracted_dir(package_name) }

(***************************************************************************)
(* The front ends: the command line actions setup and compile_and_debug,   *)
(* the notebook magic %aptan and the notebook handler handle_install.  ui  *)
(* is the front end that runs: its command (cmd), the place it has reached *)
(* (pc), its arguments, and what it has logged, prompted and reported;     *)
(* status is the exit status of the process, -1 while it runs.             *)
(***************************************************************************)
\* the front end commands run in SpecFront
MaxFrontCalls == 1

\* the attempts of automate_setup in one run of setup
MaxAttempts == 3

\* what the user answers at Prompt.ask("Retry or Exit?")
PromptChoices == {"Retry", "Exit"}

\* the project directory given to compile_and_debug, and its source file
ProjectName == "app"

SrcFile == <<ProjectName, "src", "main.js">>

\* the values given for --language
CliLanguages == {"swift", "ObjC", "rust", "kotlin"}

\* a front end command starts: no other is running, no invocation is under
\* way, and fewer than max commands have been started
FrontIdle(max) ==
    /\ ui.pc \in {"idle", "done", "exit"}
    /\ inv[1].pc \in {"idle", "returned"}
    /\ clock < max

\* "yesco setup [--retry]" is started
SetupCall(max) ==
    /\ FrontIdle(max)
    /\ \E retry \in BOOLEAN :
          ui' = [cmd |-> "setup", pc |-> "try", retry |-> retry, attempts |-> 0,
                 prompts |-> <<>>, status |-> -1, log |-> <<>>]
    /\ clock' = clock + 1
    /\ UNCHANGED <<host, fs, inv, prev>>

\* one turn of the while loop of setup: automate_setup() runs well and the
\* loop breaks, or it raises; without --retry that ends the process with
\* status 1, with --retry the user is prompted
SetupAttempt ==
    /\ ui.cmd = "setup"
    /\ ui.pc = "try"
    /\ ui.attempts < MaxAttempts
    /\ \E ok \in BOOLEAN :
          ui' = IF ok
                THEN [ui EXCEPT !.pc = "done", !.attempts = @ + 1, !.status = 0,
                                !.log = @ \o <<"Automating setup...", "Setup complete.">>]
                ELSE IF ~ui.retry
                THEN [ui EXCEPT !.pc = "exit", !.attempts = @ + 1, !.status = 1,
                                !.log = Append(@, "Error")]
                ELSE [ui EXCEPT !.pc = "prompt", !.attempts = @ + 1,
                                !.log = Append(@, "Error")]
    /\ UNCHANGED <<host, fs, inv, prev, clock>>

\* the user answers the prompt of setup: Exit ends the process with status
\* 1, Retry goes round the loop
SetupPrompt ==
    /\ ui.cmd = "setup"
    /\ ui.pc = "prompt"
    /\ \E answer \in PromptChoices :
          ui' = IF Lower(answer) = "exit"
                THEN [ui EXCEPT !.pc = "exit", !.status = 1, !.prompts = Append(@, answer)]
                ELSE [ui EXCEPT !.pc = "try", !.prompts = Append(@, answer),
                                !.log = Append(@, "Retrying setup...")]
    /\ UNCHANGED <<host, fs, inv, prev, clock>>

\* "yesco compile-and-debug <project_name> --language <language>" is
\* started; enable_debugging is the flag of the global config
CompileCall(max) ==
    /\ FrontIdle(max)
    /\ \E language \in CliLanguages, enable_debugging \in BOOLEAN :
          ui' = [cmd |-> "compile_and_debug", pc |-> "try", language |-> language,
                 enable_debugging |-> enable_debugging, attempts |-> 0,
                 prompts |-> <<>>, status |-> -1, log |-> <<>>]
    /\ clock' = clock + 1
    /\ UNCHANGED <<host, fs, inv, prev>>

\* the body of compile_and_debug; o: "ok", or "error" (any exception while
\* the source file is read or written)
CompileAttempt ==
    /\ ui.cmd = "compile_and_debug"
    /\ ui.pc = "try"
    /\ \E o \in {"ok", "error"} :
          IF ~exists(fs, SrcFile)
          THEN /\ ui' = [ui EXCEPT !.pc = "done", !.status = 0,
                                   !.log = Append(@, "No source found.")]
               /\ fs' = fs
          ELSE IF o = "error"
          THEN /\ ui' = [ui EXCEPT !.pc = "prompt", !.attempts = @ + 1,
                                   !.log = Append(@, "Error")]
               /\ fs' = fs
          ELSE IF Lower(ui.language) \notin {"swift", "objc", "rust"}
          THEN /\ ui' = [ui EXCEPT !.pc = "done", !.attempts = @ + 1, !.status = 0,
                                   !.log = Append(@, "Unsupported language")]
               /\ fs' = fs
          ELSE IF ui.enable_debugging
          THEN /\ ui' = [ui EXCEPT !.pc = "done", !.attempts = @ + 1, !.status = 0,
                                   !.log = @ \o <<"Using Gemini debugging (simulation)...",
                                                  "Debug success.">>]
               /\ fs' = writefile(fs, SrcFile,
                                  Text(fs.files[SrcFile].text \o "\n// Debugged"))
          ELSE /\ ui' = [ui EXCEPT !.pc = "done", !.attempts = @ + 1, !.status = 0]
               /\ fs' = fs
    /\ UNCHANGED <<host, inv, prev, clock>>

\* the user answers the prompt of compile_and_debug: Exit ends the process
\* with status 1; after Retry the function has nothing left to do and returns
CompilePrompt ==
    /\ ui.cmd = "compile_and_debug"
    /\ ui.pc = "prompt"
    /\ \E answer \in PromptChoices :
          ui' = IF Lower(answer) = "exit"
                THEN [ui EXCEPT !.pc = "exit", !.status = 1, !.prompts = Append(@, answer)]
                ELSE [ui EXCEPT !.pc = "done", !.status = 0, !.prompts = Append(@, answer)]
    /\ UNCHANGED <<host, fs, inv, prev, clock>>

\* the lines given to %aptan, as argparse gets them: the positional
\* arguments and the value of each option (None when the option is absent).
\* The documented form "install <package_name> ...", the form
\* "<package_name> ...", and "install" alone with the package name given as
\* the value of --source-url
MagicLines ==
    [positional : {<<n>> : n \in PackageNames} \cup {<<"install", n>> : n \in PackageNames},
     source_url : {None, "http://mirror/pkg.tar.gz"},
     target : {None, "python", "ios", "javascript"},
     install_env : {None, "local"}]
    \cup
    [positional : {<<"install">>},
     source_url : PackageNames,
     target : {None, "http://mirror/pkg.tar.gz"},
     install_env : {None, "python"}]

\* parse_argstring(self.aptan, line): the parser takes one positional
\* argument, package_name; a line with none or with more is a UsageError
parse_argstring(line) ==
    IF Len(line.positional) # 1
    THEN [error |-> "UsageError"]
    ELSE [error |-> "", package_name |-> line.positional[1],
          source_url |-> line.source_url,
          target |-> IF line.target = None THEN "native" ELSE line.target,
          install_env |-> line.install_env]

\* the arguments aptan passes to install_package
aptan_args(args) ==
    IF args.package_name = "install"
    THEN [pkg |-> args.source_url,
          src_url |-> IF args.target # "native" THEN args.target ELSE "",
          tplat |-> IF args.install_env \notin {None, ""} THEN args.install_env ELSE "native",
          ienv |-> None]
    ELSE [pkg |-> args.package_name, src_url |-> args.source_url,
          tplat |-> args.target, ienv |-> args.install_env]

\* a front end calls install_package(pkg, src_url, tplat, ienv) in process 1
FrontInvocation(pkg, src_url, tplat, ienv) ==
    [Idle EXCEPT !.pc = "download", !.package_name = pkg, !.source_url = src_url,
                 !.targets = {tplat}, !.envs = {ienv}]

\* what prev is when process 1 is called again
PrevOf(i) ==
    IF i.pc = "returned"
    THEN [package_name |-> i.package_name, source_url |-> i.source_url,
          extracted |-> i.extracted]
    ELSE prev

\* the line magic %aptan is run with a line
MagicCall(max) ==
    /\ FrontIdle(max)
    /\ \E line \in MagicLines :
          LET args == parse_argstring(line)
          IN  IF args.error # ""
              THEN /\ ui' = [cmd |-> "aptan", pc |-> "done", line |-> line,
                             error |-> args.error, called |-> FALSE]
                   /\ UNCHANGED <<inv, prev>>
              ELSE LET a == aptan_args(args)
                   IN  /\ ui' = [cmd |-> "aptan", pc |-> "call", line |-> line,
                                 error |-> "", called |-> TRUE]
                       /\ inv' = [inv EXCEPT ![1] =
                             FrontInvocation(a.pkg, a.src_url, a.tplat, a.ienv)]
                       /\ prev' = PrevOf(inv[1])
    /\ clock' = clock + 1
    /\ UNCHANGED <<host, fs>>

\* install_package has returned to the magic, or an exception has left it
MagicReturn ==
    /\ ui.cmd = "aptan"
    /\ ui.pc = "call"
    /\ inv[1].pc = "returned"
    /\ ui' = [ui EXCEPT !.pc = "done", !.error = inv[1].raised]
    /\ UNCHANGED <<host, fs, inv, prev, clock>>

\* the options of the Target dropdown of the notebook interface
WidgetTargets == {"native", "ipywidgets", "python", "ios"}

\* self.state['package_history'] of the notebook interface
PackageHistory == IF ui.cmd = "handle_install" THEN ui.history ELSE <<>>

\* Jedimt.apt_install: what it logs on the console for the value
\* install_package returned; it returns nothing itself
apt_install(package_name, target_platform, success) ==
    IF success
    THEN "APT package '" \o package_name \o "' installed for '" \o target_platform \o "'."
    ELSE "Failed to install '" \o package_name \o "'."

\* handle_install up to the call of install_package inside apt_install:
\* the status and the progress are set, the widgets are read; an empty
\* package name raises ValueError, which the handler reports at once
HandleInstallCall(max) ==
    /\ FrontIdle(max)
    /\ \E pkg \in PackageNames \cup {""}, tgt \in WidgetTargets :
          IF pkg = ""
          THEN /\ ui' = [cmd |-> "handle_install", pc |-> "done", pkg |-> pkg, tgt |-> tgt,
                         status_bar |-> "Installation failed", progress |-> 0,
                         log |-> <<"Installation failed: Package name is required">>,
                         console |-> <<>>, history |-> PackageHistory]
               /\ UNCHANGED <<inv, prev>>
          ELSE /\ ui' = [cmd |-> "handle_install", pc |-> "install", pkg |-> pkg, tgt |-> tgt,
                         status_bar |-> "Installing package...", progress |-> 60,
                         log |-> <<"Starting installation of '" \o pkg \o "' for '"
                                     \o tgt \o "'">>,
                         console |-> <<>>,
                         history |-> IF \E k \in 1..Len(PackageHistory) :
                                           PackageHistory[k] = pkg
                                     THEN PackageHistory
                                     ELSE Append(PackageHistory, pkg)]
               /\ inv' = [inv EXCEPT ![1] = FrontInvocation(pkg, None, tgt, None)]
               /\ prev' = PrevOf(inv[1])
    /\ clock' = clock + 1
    /\ UNCHANGED <<host, fs>>

\* handle_install from the return of install_package on: apt_install logs
\* the result and returns, the handler reports success; an exception that
\* left install_package is reported as a failure; finally the progress is
\* set back
HandleInstallReturn ==
    /\ ui.cmd = "handle_install"
    /\ ui.pc = "install"
    /\ inv[1].pc = "returned"
    /\ ui' = IF inv[1].ret = "raised"
             THEN [ui EXCEPT !.pc = "done", !.progress = 0,
                             !.log = Append(@, "Installation failed: " \o inv[1].raised),
                             !.status_bar = "Installation failed"]
             ELSE [ui EXCEPT !.pc = "done", !.progress = 0,
                             !.console = Append(@, apt_install(ui.pkg, ui.tgt,
                                                               inv[1].ret = "True")),
                             !.log = Append(@, "Installed '" \o ui.pkg \o "' successfully"),
                             !.status_bar = "Installation complete"]
    /\ UNCHANGED <<host, fs, inv, prev, clock>>

\* the working directory holds the project of compile_and_debug, or not
InitFront ==
    /\ host \in Hosts
    /\ fs \in {InitFs,
               writefile(makedirs(InitFs, dirname(SrcFile)), SrcFile, Text("let x;\n"))}
    /\ inv = [p \in Procs |-> Idle]
    /\ prev = NoPrev
    /\ clock = 0
    /\ ui = NoUi

NextFront ==
    \/ SetupCall(MaxFrontCalls)
    \/ SetupAttempt
    \/ SetupPrompt
    \/ CompileCall(MaxFrontCalls)
    \/ CompileAttempt
    \/ CompilePrompt
    \/ MagicCall(MaxFrontCalls)
    \/ MagicReturn
    \/ HandleInstallCall(MaxFrontCalls)
    \/ HandleInstallReturn
    \/ Stage(1)

\* one front end command at a time, from start to end
SpecFront == InitFront /\ [][NextFront]_vars

(***************************************************************************)
(* Properties.                                                             *)
(***************************************************************************)
\* the stage the invocation of p ran last
LastStage(p) == inv[p].stages[Len(inv[p].stages)]

\* stage has run in the invocation of p
HasRun(p, stage) == \E i \in 1..Len(inv[p].stages) : inv[p].stages[i].stage = stage

\* a subprocess command of build_native
IsBuildCommand(c) == Len(c) >= 3 /\ SubSeq(c, 1, 3) = "cd "

\* the archive tarred, as the tree its members unpack to
ArchiveTree(f, tarred) ==
    [r \in {m.name : m \in f.files[tarred].members} |->
        (CHOOSE m \in f.files[tarred].members : m.name = r).data]

\* the directories below p
DirsBelow(f, p) == {relpath(d, p) : d \in {x \in f.dirs : IsProperPrefix(p, x)}}

\* the directories a tree of files needs
ParentsOf(t) == UNION {{SubSeq(r, 1, n) : n \in 1..(Len(r) - 1)} : r \in DOMAIN t}

\* C1: a stage that reports failure (download_source, convert_to_targz or
\* the re-extraction returning nothing, the suitability gate declining, the
\* selected backend returning false) is the last stage of its invocation,
\* and install_package has returned False.
C1_FailureEndsPipeline ==
    \A p \in Procs : \A i \in 1..Len(inv[p].stages) :
        inv[p].stages[i].result = "failed" =>
            /\ i = Len(inv[p].stages)
            /\ inv[p].pc = "returned"
            /\ inv[p].ret = "False"

\* an invocation that ended at a failed convert_to_targz, after its download
C1_Witness ==
    /\ inv[1].pc = "returned"
    /\ inv[1].ret = "False"
    /\ Len(inv[1].stages) = 2
    /\ LastStage(1) = [stage |-> "convert_to_targz", result |-> "failed"]

\* C2: install_and_configure is invoked only right after the backend that
\* the dispatch selected for this invocation (build_native or
\* translate_to_language) has returned success; a native build that was
\* skipped or exited nonzero (no build command with exit 0) is never
\* followed by an install.
C2_InstallOnlyAfterBackendSuccess ==
    \A p \in Procs :
        (inv[p].pc = "install" \/ HasRun(p, "install_and_configure")) =>
            LET n == IF inv[p].pc = "install" THEN Len(inv[p].stages)
                     ELSE Len(inv[p].stages) - 1
                b == dispatch(inv[p].target_platform, host.key)
            IN  /\ n >= 1
                /\ inv[p].stages[n].result = "ok"
                /\ inv[p].stages[n].stage =
                      (IF b = "translate" THEN "translate_to_language" ELSE "build_native")
                /\ b \in {"native", "unknown", "translate"}
                /\ b # "translate" =>
                      /\ \E k \in 1..Len(inv[p].cmds) : IsBuildCommand(inv[p].cmds[k])
                      /\ exists(fs, join(inv[p].extracted, "Makefile"))
                /\ \A k \in 1..Len(inv[p].stages) :
                      inv[p].stages[k].stage = "install_and_configure" => k = n + 1

\* install_and_configure has run after a native build
C2_Witness ==
    /\ HasRun(1, "install_and_configure")
    /\ HasRun(1, "build_native")
    /\ inv[1].target_platform = "native"

\* the install record of the package of p is in the install root resolved
\* for its invocation
RecordInstalled(p) ==
    LET conf_file == join(install_path(host, inv[p].package_name, inv[p].install_env),
                          inv[p].package_name \o "_config.json")
    IN  /\ conf_file \in DOMAIN fs.files
        /\ fs.files[conf_file].kind = "json"
        /\ fs.files[conf_file].data.package_name = inv[p].package_name

C4_AlwaysReturnsResult ==
    \A p \in Procs : inv[p].pc = "returned" => inv[p].ret \in {"True", "False"}

\* C5: when install_package hands the extracted directory to the analyzer
\* or to a backend, the directory holds exactly the entries of the archive
\* built in this invocation: the files of the archive with their contents,
\* the directories these need, and nothing that an earlier invocation left.
C5_ExtractedHoldsExactlyTheArchive ==
    \A p \in Procs :
        inv[p].pc \in {"gate", "dispatch"} =>
            /\ tree(fs, inv[p].extracted) = ArchiveTree(fs, inv[p].tarred)
            /\ DirsBelow(fs, inv[p].extracted) = ParentsOf(ArchiveTree(fs, inv[p].tarred))

\* the extracted directory is handed on, and before it was cleaned it held a
\* file of an earlier invocation that the archive of this one does not have
C5_Witness ==
    /\ inv[1].pc = "gate"
    /\ \E r \in DOMAIN inv[1].stale : r \notin DOMAIN tree(fs, inv[1].extracted)

\* C6 as claimed: two requests that differ (here: in name or in source URL)
\* get distinct extracted directories.
C6_DifferentRequestsDistinctDirs ==
    \A p \in Procs :
        (/\ inv[p].extracted # NoPath
         /\ prev.extracted # NoPath
         /\ \/ inv[p].package_name # prev.package_name
            \/ inv[p].source_url # prev.source_url)
        => inv[p].extracted # prev.extracted

\* C6 as amended: the package name alone decides the extracted directory:
\* two invocations get the same one exactly when their package names are
\* the same, whatever the rest of their requests.
C6_ExtractedDirByNameAlone ==
    \A p \in Procs :
        (inv[p].extracted # NoPath /\ prev.extracted # NoPath) =>
            (inv[p].extracted = prev.extracted <=> inv[p].package_name = prev.package_name)

\* two successive invocations for different packages have both extracted
C6_Witness ==
    /\ inv[1].extracted # NoPath
    /\ prev.extracted # NoPath
    /\ inv[1].package_name # prev.package_name

\* C7: convert_to_targz followed by the re-extraction gives a directory with
\* the relative file paths and the file contents of the source directory.
C7_RoundTripLossless ==
    \A p \in Procs :
        inv[p].pc = "gate" => tree(fs, inv[p].extracted) = tree(fs, inv[p].src_dir)

\* a source directory with a file in a subdirectory has gone through
C7_Witness ==
    /\ inv[1].pc = "gate"
    /\ <<"sub", "util.c">> \in DOMAIN tree(fs, inv[1].src_dir)
    /\ <<"main.c">> \in DOMAIN tree(fs, inv[1].src_dir)

\* the targets install_package tests for
RecognizedTargets == {"native", "python", "ios", "javascript", "swift"}

\* C8: for a target that is none of the recognized ones (None included),
\* install_package calls build_native and neither build_ios_app nor the
\* translation.
C8_UnknownTargetBuildsNative ==
    \A p \in Procs :
        inv[p].target_platform \notin RecognizedTargets \cup {Unread} =>
            /\ ~HasRun(p, "build_ios_app")
            /\ ~HasRun(p, "translate_to_language")
            /\ ~HasRun(p, "generate_code")
            /\ inv[p].pc \in {"install", "returned"} => HasRun(p, "build_native")

\* build_native has run for the target None
C8_Witness ==
    /\ inv[1].target_platform = None
    /\ HasRun(1, "build_native")

\* the backend that has run in the invocation of p
BackendRun(p) ==
    IF HasRun(p, "build_native") THEN "NativeBuilder"
    ELSE IF HasRun(p, "build_ios_app") THEN "MobileBuilder"
    ELSE IF HasRun(p, "translate_to_language") \/ HasRun(p, "generate_code") THEN "Translator"
    ELSE "none"

\* the backend of a branch of the dispatch
BackendOf(branch) ==
    CASE branch \in {"native", "unknown"} -> "NativeBuilder"
      [] branch = "ios" -> "MobileBuilder"
      [] branch \in {"translate", "python"} -> "Translator"

\* C9 as claimed: the target string alone selects the backend: the backend
\* that runs for a target is the one the same target gets on a host with an
\* API key, whether this host has one or not.
C9_TargetAloneSelectsBackend ==
    \A p \in Procs :
        (inv[p].target_platform # Unread /\ BackendRun(p) # "none") =>
            BackendRun(p) = BackendOf(dispatch(inv[p].target_platform, TRUE))

\* C10: build_native on an extracted directory without a Makefile returns
\* False and runs no build command, whatever build command is configured.
C10_NoMakefileNoSubprocess ==
    \A p \in Procs :
        (/\ Len(inv[p].stages) > 0
         /\ LastStage(p).stage = "build_native"
         /\ ~exists(fs, join(inv[p].extracted, "Makefile")))
        => /\ LastStage(p).result = "failed"
           /\ inv[p].ret = "False"
           /\ \A k \in 1..Len(inv[p].cmds) : ~IsBuildCommand(inv[p].cmds[k])

\* build_native has been called without a Makefile on a host that
\* configures its own build command
C10_Witness ==
    /\ Len(inv[1].stages) > 0
    /\ LastStage(1) = [stage |-> "build_native", result |-> "failed"]
    /\ ~exists(fs, join(inv[1].extracted, "Makefile"))
    /\ get_config(host.config, "build_command", "make") # "make"

\* the install root and the record file of the invocation of p
RootOf(p) == install_path(host, inv[p].package_name, inv[p].install_env)

ConfFileOf(p) == join(RootOf(p), inv[p].package_name \o "_config.json")

\* install_and_configure has completed as the last stage of p
InstallCompleted(p) ==
    /\ Len(inv[p].stages) > 0
    /\ LastStage(p) = [stage |-> "install_and_configure", result |-> "ok"]

\* the files below root that are install records of package_name
RecordsOf(f, root, package_name) ==
    {q \in DOMAIN f.files :
        /\ IsProperPrefix(root, q)
        /\ f.files[q].kind = "json"
        /\ f.files[q].data.package_name = package_name}

\* ~/.bashrc as it is after the installs given as <<package name, root>>
BashrcAfter(installs) ==
    IF installs = <<>> THEN "# ~/.bashrc\n"
    ELSE IF Len(installs) = 1
    THEN "# ~/.bashrc\n" \o bashrc_lines(installs[1][1], installs[1][2])
    ELSE "# ~/.bashrc\n" \o bashrc_lines(installs[1][1], installs[1][2])
                         \o bashrc_lines(installs[2][1], installs[2][2])

\* C11: when install_and_configure has completed, whatever runs with the
\* same package name and install root came before, the install root holds
\* exactly one install record of the package, the record is a JSON object
\* of the three fields, and its install time is the time of this run.
C11_OneRecordOfLatestInstall ==
    \A p \in Procs :
        InstallCompleted(p) =>
            /\ RecordsOf(fs, RootOf(p), inv[p].package_name) = {ConfFileOf(p)}
            /\ DOMAIN fs.files[ConfFileOf(p)].data
                  = {"package_name", "install_time", "platform"}
            /\ fs.files[ConfFileOf(p)].data.install_time = clock

\* the second completed install of the same package into the same root, on
\* Linux, where ~/.bashrc shows the two runs
C11_Witness ==
    /\ InstallCompleted(1)
    /\ clock = 2
    /\ host.system = "Linux"
    /\ fs.files[join(Home, ".bashrc")].text
          = BashrcAfter(<< <<inv[1].package_name, RootOf(1)>>,
                           <<inv[1].package_name, RootOf(1)>> >>)
    /\ fs.files[ConfFileOf(1)].data.install_time = 2

\* C12 as claimed: every install record written carries the package name of
\* the request, the install time, the platform equal to the host OS family,
\* and the install path equal to the install root resolved for the install.
C12_RecordCarriesInstallPath ==
    \A p \in Procs :
        InstallCompleted(p) =>
            LET data == fs.files[ConfFileOf(p)].data
            IN  /\ data.package_name = inv[p].package_name
                /\ data.install_time = clock
                /\ data.platform = host.system
                /\ "install_path" \in DOMAIN data
                /\ data.install_path = RootOf(p)

\* C12 as amended: every install record written carries exactly the package
\* name of the request, the install time and the platform equal to the host
\* OS family; it has no field for the install path.
C12_RecordCarriesNamePlatformTime ==
    \A p \in Procs :
        InstallCompleted(p) =>
            fs.files[ConfFileOf(p)] =
                Json([package_name |-> inv[p].package_name, install_time |-> clock,
                      platform |-> host.system])

\* a record has been written on a Darwin host, into the default install root
C12_Witness ==
    /\ InstallCompleted(1)
    /\ host.system = "Darwin"
    /\ inv[1].install_env = None
    /\ ConfFileOf(1) \in DOMAIN fs.files

\* the text of ~/.bashrc in the file system f
BashrcText(f) == f.files[join(Home, ".bashrc")].text

\* the step of p completes install_and_configure
CompletesInstall(p) ==
    /\ inv[p].pc = "install"
    /\ Len(inv'[p].stages) > 0
    /\ inv'[p].stages[Len(inv'[p].stages)] = [stage |-> "install_and_configure", result |-> "ok"]

\* C13: on Linux every step that completes install_and_configure appends to
\* ~/.bashrc the comment and exactly one PATH export line for its install
\* root, whatever the file holds already, and leaves what the file held in
\* front of it; no other step changes the file.  So n installs of the same
\* package into the same root leave n such lines.
C13_EachInstallAppendsOneExport ==
    [][IF host.system = "Linux" /\ \E p \in Procs : CompletesInstall(p)
       THEN \E p \in Procs :
               /\ CompletesInstall(p)
               /\ BashrcText(fs') = BashrcText(fs)
                     \o bashrc_lines(inv[p].package_name,
                                     install_path(host, inv[p].package_name,
                                                  inv'[p].install_env))
       ELSE BashrcText(fs') = BashrcText(fs)]_vars

\* two installs of the same package into the same named environment have
\* completed on Linux: the file ends with the same two lines twice
C13_Witness ==
    /\ host.system = "Linux"
    /\ InstallCompleted(1)
    /\ inv[1].install_env = "local"
    /\ BashrcText(fs) = BashrcAfter(<< <<inv[1].package_name, RootOf(1)>>,
                                       <<inv[1].package_name, RootOf(1)>> >>)

\* the install root the step of p installs into
RootOfStep(p) == install_path(host, inv[p].package_name, inv'[p].install_env)

FailsInstall(p) ==
    /\ inv[p].pc = "install"
    /\ Len(inv'[p].stages) > 0
    /\ inv'[p].stages[Len(inv'[p].stages)]
          = [stage |-> "install_and_configure", result |-> "raised"]

\* C15: an install that fails partway (a copy fails, or writing the record
\* fails) leaves no partial install state: the install root has gained no
\* file of the package and no install record, and ~/.bashrc is unchanged.
C15_FailedInstallLeavesNothing ==
    [][\A p \in Procs :
          FailsInstall(p) =>
              /\ \A q \in DOMAIN fs'.files :
                    IsProperPrefix(RootOfStep(p), q) =>
                        /\ q \in DOMAIN fs.files
                        /\ fs'.files[q] = fs.files[q]
              /\ BashrcText(fs') = BashrcText(fs)]_vars

\* the invocation of p has no source URL and the host has no apt-get
NoUrlNoTool(p) ==
    /\ inv[p].source_url \in {None, ""}
    /\ ~(host.system = "Linux" /\ host.apt)

\* C16: with an empty or missing source URL on a host without apt-get,
\* download_source reports failure and changes nothing in the file system,
\* and install_package returns False at once: no archive and no extracted
\* directory is created, and no other stage runs.
C16_NoUrlNoToolCreatesNothing ==
    [][\A p \in Procs :
          (inv[p].pc = "download" /\ NoUrlNoTool(p)) =>
              /\ fs' = fs
              /\ inv'[p].pc = "returned"
              /\ inv'[p].ret = "False"
              /\ inv'[p].stages = <<[stage |-> "download_source", result |-> "failed"]>>
              /\ inv'[p].out = <<"No source URL provided.">>
              /\ inv'[p].cmds = <<>>]_vars

\* install_package has returned for an empty URL on a Windows host, and
\* neither the archive nor the extracted directory is there
C16_Witness ==
    /\ inv[1].pc = "returned"
    /\ inv[1].source_url = ""
    /\ host.system = "Windows"
    /\ inv[1].ret = "False"
    /\ ~exists(fs, join(source_dir, inv[1].package_name \o ".tar.gz"))
    /\ ~exists(fs, extracted_dir(inv[1].package_name))

\* C17: on a host with apt-get, a download_source whose apt-get source
\* unpacks no folder reports failure, and one that reports success returns
\* the folder that its own apt-get source unpacked, whatever earlier fetches
\* of the same package name have left.
C17_ReturnsFolderOfThisFetch ==
    \A p \in Procs :
        (host.system = "Linux" /\ host.apt /\ HasRun(p, "download_source")) =>
            /\ inv[p].fetched = None => inv[p].stages[1].result = "failed"
            /\ inv[p].stages[1].result = "ok" =>
                  /\ inv[p].fetched # None
                  /\ inv[p].src_dir
                        = join(join(source_dir, "temp_" \o inv[p].package_name),
                               inv[p].fetched)

\* the suitability gate has declined in the invocation of p
GateDeclined(p) ==
    \E i \in 1..Len(inv[p].stages) :
        inv[p].stages[i] = [stage |-> "analyze_suitability", result |-> "failed"]

\* C18: when the suitability gate has been consulted and has declined, the
\* suggestion of alternatives is the last line printed, install_package has
\* returned False, and in this invocation no backend has been called, no
\* translation produced, nothing installed, and nothing fetched but the one
\* download of the requested package.
C18_DeclinedGateAborts ==
    \A p \in Procs :
        GateDeclined(p) =>
            /\ inv[p].pc = "returned"
            /\ inv[p].ret = "False"
            /\ inv[p].out[Len(inv[p].out)] = suggest_alternatives(inv[p].package_name)
            /\ BackendRun(p) = "none"
            /\ inv[p].target_platform = Unread
            /\ ~HasRun(p, "install_and_configure")
            /\ inv[p].install_env = Unread
            /\ {i \in 1..Len(inv[p].stages) : inv[p].stages[i].stage = "download_source"} = {1}
            /\ \A k \in 1..Len(inv[p].cmds) :
                  inv[p].cmds[k] = "apt-get source " \o inv[p].package_name
            /\ \A t \in Targets \ {None} :
                  ~exists(fs, join(inv[p].extracted, inv[p].package_name \o "." \o t))

\* the gate has declined the package Network, whose source passed the
\* question about system calls or never raised it
C18_Witness ==
    /\ GateDeclined(1)
    /\ inv[1].package_name = "Network"
    /\ inv[1].pc = "returned"
    /\ exists(fs, join(inv[1].extracted, "main.c"))

\* the targets that ask for a translation
TranslationTargets == {"python", "javascript", "swift"}

\* C19: on a host with no API key the suitability gate is never consulted,
\* and an invocation whose target is a translation language ends with the
\* report "Gemini not configured." and without an exception.
C19_NoKeyReportsNotConfigured ==
    \A p \in Procs :
        ~host.key =>
            /\ ~HasRun(p, "analyze_suitability")
            /\ (inv[p].pc = "returned" /\ inv[p].target_platform \in TranslationTargets) =>
                  /\ \E k \in 1..Len(inv[p].out) : inv[p].out[k] = "Gemini not configured."
                  /\ inv[p].raised = ""

\* C20: for every translation target, python included, an invocation whose
\* extracted directory has no main.c ends with the result False, without a
\* call of generate_code and without an output file of the translation.
C20_NoMainCFailsTranslation ==
    \A p \in Procs :
        (/\ inv[p].pc = "returned"
         /\ inv[p].target_platform \in TranslationTargets
         /\ ~exists(fs, join(inv[p].extracted, "main.c")))
        => /\ inv[p].ret = "False"
           /\ ~HasRun(p, "generate_code")
           /\ ~exists(fs, join(inv[p].extracted,
                               inv[p].package_name \o "." \o inv[p].target_platform))

\* the languages generate_code has a translation for
SupportedLanguages == {"python", "javascript", "swift"}

\* C21: translate_to_language with an API key, an existing main.c and a
\* target language generate_code does not support returns True and has
\* written the stub comment that names the language to
\* <extract_dir>/<package_name>.<language>.
C21_UnsupportedLanguageGetsStub ==
    \A p \in Procs :
        (/\ Len(inv[p].stages) > 0
         /\ LastStage(p).stage = "translate_to_language"
         /\ host.key
         /\ exists(fs, join(inv[p].extracted, "main.c"))
         /\ inv[p].target_platform \notin SupportedLanguages)
        => LET out_file == join(inv[p].extracted,
                                inv[p].package_name \o "." \o inv[p].target_platform)
           IN  /\ LastStage(p).result = "ok"
               /\ inv[p].ret = "True"
               /\ out_file \in DOMAIN fs.files
               /\ fs.files[out_file] = Text("// Not supported: " \o inv[p].target_platform)

\* translate_to_language has been called for rust on a directory with main.c
C21_Witness ==
    /\ inv[1].pc = "returned"
    /\ LastStage(1).stage = "translate_to_language"
    /\ host.key
    /\ inv[1].target_platform = "rust"
    /\ exists(fs, join(inv[1].extracted, inv[1].package_name \o ".rust"))

\* the step of p is a call of build_ios_app
CallsIos(p) ==
    /\ inv'[p] # inv[p]
    /\ Len(inv'[p].stages) > 0
    /\ inv'[p].stages[Len(inv'[p].stages)].stage = "build_ios_app"

\* C22: build_ios_app on a host that is not Darwin returns False, leaves
\* the file system as it is and runs no subprocess.  On Darwin, when no
\* project is in the directory, the project file and main.swift are there
\* when xcodebuild is run on that project, and a main.swift that was there
\* before keeps its content.
C22_IosOnlyOnDarwinScaffoldFirst ==
    [][\A p \in Procs :
          CallsIos(p) =>
              LET dir  == inv'[p].extracted
                  proj == join(dir, inv'[p].package_name \o ".xcodeproj")
                  main_swift == join(dir, "main.swift")
                  run  == {k \in 1..Len(inv'[p].cmds) :
                              Contains(inv'[p].cmds[k], "xcodebuild")}
              IN  IF host.system # "Darwin"
                  THEN /\ inv'[p].ret = "False"
                       /\ fs' = fs
                       /\ run = {}
                  ELSE xcode_projects(fs, dir) = {} =>
                          /\ exists(fs', join(proj, "project.pbxproj"))
                          /\ exists(fs', main_swift)
                          /\ exists(fs, main_swift) =>
                                fs'.files[main_swift] = fs.files[main_swift]
                          /\ run # {}
                          /\ \A k \in run :
                                Contains(inv'[p].cmds[k], "-project " \o PathStr(proj))]_vars

\* build_ios_app has scaffolded a project on Darwin next to a main.swift
\* that was there before
C22_Witness ==
    /\ host.system = "Darwin"
    /\ inv[1].pc = "returned"
    /\ LastStage(1).stage = "build_ios_app"
    /\ exists(fs, join(join(inv[1].extracted, inv[1].package_name \o ".xcodeproj"),
                       "project.pbxproj"))
    /\ exists(fs, join(inv[1].extracted, "main.swift"))
    /\ fs.files[join(inv[1].extracted, "main.swift")] = Text("// mine\n")


\* invocation q has extracted its archive and its backend or installer has
\* not finished with the extracted directory
Reading(q) ==
    /\ inv[q].pc \in {"gate", "dispatch", "install"}
    /\ HasRun(q, "reextract")

\* C23: two concurrent invocations for the same package name are not guarded
\* against each other: whenever one of them is about to delete and recreate
\* the extracted directory while the other has extracted into it and has not
\* finished reading it, the deletion can go ahead.
C23_NoGuardOnExtractedDir ==
    \A p \in Procs, q \in Procs :
        (/\ p # q
         /\ inv[p].package_name = inv[q].package_name
         /\ inv[p].pc = "clean"
         /\ Reading(q))
        => ENABLED Clean(p)

\* one invocation has emptied the extracted directory that the other, still
\* before its backend or installer, had populated
C23_Witness ==
    \E p \in Procs, q \in Procs :
        /\ p # q
        /\ inv[p].package_name = inv[q].package_name
        /\ inv[p].pc = "extract"
        /\ Reading(q)
        /\ inv[p].extracted = inv[q].extracted
        /\ DOMAIN tree(fs, inv[q].extracted) = {}

\* C24: each package name owns its own part of the source workspace: the
\* workspace paths of two invocations for different package names are disjoint.
C24_NamesOwnDisjointPaths ==
    \A p \in Procs, q \in Procs :
        (/\ inv[p].package_name # None
         /\ inv[q].package_name # None
         /\ inv[p].package_name # inv[q].package_name)
        => workspace_paths(inv[p].package_name)
              \cap workspace_paths(inv[q].package_name) = {}

\* the archive members, as the tree they unpack to
MembersTree(members) ==
    [r \in {m.name : m \in members} |-> (CHOOSE m \in members : m.name = r).data]

\* C27: when a URL-based invocation follows a URL-based invocation for the
\* same package name, the extracted directory handed to the backend holds
\* exactly the files of the archive this invocation downloaded.
C27_SecondDownloadAloneReachesBackend ==
    \A p \in Procs :
        (/\ inv[p].pc = "gate"
         /\ inv[p].served.kind = "tar"
         /\ prev.package_name = inv[p].package_name
         /\ prev.source_url \notin {None, ""})
        => tree(fs, inv[p].extracted) = MembersTree(inv[p].served.members)

\* the step of p completes install_and_configure after an invocation for a
\* different package name
InstallsNextTo(p) ==
    /\ CompletesInstall(p)
    /\ prev.package_name \notin {None, inv[p].package_name}

\* the relative paths an install of package_name from the tree src writes in
\* its install root: the paths of src, the install record, and e/e for a
\* top-level file e of src (where the root holds a directory e)
InstallWrites(src, package_name) ==
    DOMAIN src \cup {<<package_name \o "_config.json">>}
               \cup {<<r[1], r[1]>> : r \in {x \in DOMAIN src : Len(x) = 1}}

HasRetryPrompt == ui.cmd \in {"setup", "compile_and_debug"}

\* the step answers the retry prompt with answer
AnswersPrompt(answer) ==
    /\ HasRetryPrompt
    /\ ui.pc = "prompt"
    /\ ui'.cmd = ui.cmd
    /\ ui'.prompts = Append(ui.prompts, answer)

\* C25: in setup and in compile_and_debug, after a failure the answer Retry
\* has the action attempted again and the answer Exit ends the process with
\* status 1; setup without --retry ends with status 1 at the first failure
\* and does not prompt; a successful attempt ends the action.
C25_RetryAttemptsAgainExitEnds ==
    [][/\ AnswersPrompt("Retry") => ui'.pc = "try"
       /\ AnswersPrompt("Exit") => ui'.pc = "exit" /\ ui'.status = 1
       /\ (/\ ui.cmd = "setup"
           /\ ui.pc = "try"
           /\ ui'.cmd = "setup"
           /\ ui'.attempts = ui.attempts + 1)
          => \/ ui'.pc = "done" /\ ui'.status = 0
             \/ ui.retry /\ ui'.pc = "prompt"
             \/ ~ui.retry /\ ui'.pc = "exit" /\ ui'.status = 1
                /\ ui'.prompts = ui.prompts
       /\ (HasRetryPrompt /\ ui.pc = "done") => ui'.cmd # ui.cmd \/ ui' = ui]_vars

\* the line given to %aptan was of the documented form
\* install <package_name> [--source-url ..] [--target ..] [--install-env ..]
DocumentedForm ==
    /\ ui.cmd = "aptan"
    /\ Len(ui.line.positional) = 2
    /\ ui.line.positional[1] = "install"

\* C26: %aptan in its documented form calls install_package with the
\* package name of the line, its source URL, its target (native when the
\* option is absent) and its install environment.
C26_DocumentedFormCallsInstall ==
    DocumentedForm =>
        /\ ui.called
        /\ inv[1].package_name = ui.line.positional[2]
        /\ inv[1].source_url = ui.line.source_url
        /\ inv[1].targets = {IF ui.line.target = None THEN "native" ELSE ui.line.target}
        /\ inv[1].envs = {ui.line.install_env}

\* C29: when handle_install has ended, the progress is 0, and the handler
\* has logged "Installed ... successfully" and set the status "Installation
\* complete" if install_package returned True, and has set the status
\* "Installation failed" and logged no success otherwise.
C29_HandlerReportsOutcome ==
    (ui.cmd = "handle_install" /\ ui.pc = "done") =>
        /\ ui.progress = 0
        /\ IF ui.pkg # "" /\ inv[1].ret = "True"
           THEN /\ ui.status_bar = "Installation complete"
                /\ ui.log[Len(ui.log)] = "Installed '" \o ui.pkg \o "' successfully"
           ELSE /\ ui.status_bar = "Installation failed"
                /\ \A k \in 1..Len(ui.log) :
                      ui.log[k] # "Installed '" \o ui.pkg \o "' successfully"
=============================================================================
